---- MODULE Spec2Model ----
(***************************************************************************)
(* Session-transport broker of the MCP SSE server (src/server.js, final    *)
(* entry point, lines 361-495; src/unnamed/part_001 is the same handler).  *)
(*                                                                         *)
(* State: the `pending` array (staged transports), the `transports` Map    *)
(* (sessionId -> transport, a JS Map, so insertion ordered), and for every *)
(* GET /sse request the position of its async handler and the state of its *)
(* underlying connection.  A transport is identified with the GET request  *)
(* that constructed it (channel c).                                        *)
(***************************************************************************)
EXTENDS Integers, Sequences, FiniteSets, TLC

\* ---------------------------------------------------------------- bounds
\* number of GET /sse requests (transports constructed) in a behaviour
MaxChan == 3

Chan == 1..MaxChan

\* ------------------------------------------------------------ JS values
\* null / undefined
Null == -1
\* the empty string "" (the value of `?sessionId=`)
EmptyStr == 0
\* "no transport" (let transport = null)
None == 0

\* The identifier the transport of channel c emits on its stream (minted by
\* new SSEServerTransport, one per transport, all different).
sessionId(c) == 100 + c

\* JS truthiness of a string-or-null value: null and "" are falsy.
Truthy(v) == v # Null /\ v # EmptyStr

\* ------------------------------------------------- the request's query
\* A query string is a sequence of (key, value) parameters.
Param(k, v) == [k |-> k, v |-> v]

RECURSIVE searchParamsGet(_, _)
\* URLSearchParams.get(name): the value of the first parameter named `name`,
\* null when there is none.
searchParamsGet(q, name) ==
    IF q = <<>> THEN Null
    ELSE IF q[1].k = name THEN q[1].v
    ELSE searchParamsGet(Tail(q), name)

\* getSessionId(urlString): the try branch (URL parsing of a request target
\* against the fixed base never throws for the targets modelled here).
getSessionId(q) == searchParamsGet(q, "sessionId")

\* The query strings POST /sse is exercised with, given the set `sids` of
\* identifiers a client can quote: no parameter at all, ?sessionId= (empty),
\* ?sessionId=v, and ?x=&sessionId=v for the first stream's identifier.
Queries(sids) ==
    {<<>>} \cup {<<Param("sessionId", v)>> : v \in {EmptyStr} \cup sids}
           \cup {<<Param("x", EmptyStr), Param("sessionId", v)>> :
                    v \in sids \cap {sessionId(1)}}

\* ------------------------------------------------------------ JS arrays
\* Array.prototype.indexOf: 1-based index of the first occurrence, 0 if none
ArrayIndexOf(a, x) ==
    IF \E i \in 1..Len(a) : a[i] = x
    THEN CHOOSE i \in 1..Len(a) : a[i] = x /\ \A j \in 1..(i-1) : a[j] # x
    ELSE 0

\* Array.prototype.splice(i, 1): the array without its i-th element
ArraySplice(a, i) ==
    [j \in 1..(Len(a) - 1) |-> IF j < i THEN a[j] ELSE a[j + 1]]

\* the value of pending.pop() || null
ArrayPopValue(a) == IF a = <<>> THEN None ELSE a[Len(a)]

\* the array after pending.pop()
ArrayPopRest(a) == IF a = <<>> THEN a ELSE SubSeq(a, 1, Len(a) - 1)

\* pending[pending.length - 1] || null
ArrayLast(a) == IF a = <<>> THEN None ELSE a[Len(a)]

\* --------------------------------------------------------------- JS Map
\* A Map is the sequence of its entries in insertion order.
Entry(sid, t) == [sid |-> sid, t |-> t]

MapHas(m, sid) == \E i \in 1..Len(m) : m[i].sid = sid

MapGet(m, sid) ==
    IF MapHas(m, sid)
    THEN m[CHOOSE i \in 1..Len(m) : m[i].sid = sid].t
    ELSE None

\* Map.prototype.set: replaces the value of an existing key in place,
\* appends a new key.
MapSet(m, sid, t) ==
    IF MapHas(m, sid)
    THEN [i \in 1..Len(m) |-> IF m[i].sid = sid THEN Entry(sid, t) ELSE m[i]]
    ELSE Append(m, Entry(sid, t))

\* Map.prototype.delete
MapDelete(m, sid) == SelectSeq(m, LAMBDA e : e.sid # sid)

MapValues(m) == {m[i].t : i \in 1..Len(m)}
SeqRange(a) == {a[i] : i \in 1..Len(a)}

\* ------------------------------------------------------ POST /sse resolve
Resolved(t, p, m) == [transport |-> t, pending |-> p, transports |-> m]

\* resolve as it would be if the reuse branch were missing: every POST that
\* carries an identifier promotes a staged transport.
resolveNoReuse(p, m, sid) ==
    IF Truthy(sid)
    THEN LET t == ArrayPopValue(p)
         IN  Resolved(t, ArrayPopRest(p),
                      IF t # None THEN MapSet(m, sid, t) ELSE m)
    ELSE Resolved(ArrayLast(p), p, m)

\* resolve as it would be with pending.shift() for pending.pop(): the oldest
\* staged transport is promoted.
resolveOldest(p, m, sid) ==
    IF Truthy(sid) /\ MapHas(m, sid)
    THEN Resolved(MapGet(m, sid), p, m)
    ELSE IF Truthy(sid)
    THEN LET t == IF p = <<>> THEN None ELSE Head(p)
         IN  Resolved(t, IF p = <<>> THEN p ELSE Tail(p),
                      IF t # None THEN MapSet(m, sid, t) ELSE m)
    ELSE Resolved(ArrayLast(p), p, m)

\* resolve as it would be if the fallback went on to the most recently bound
\* transport when nothing is staged.
resolveFallbackBound(p, m, sid) ==
    IF Truthy(sid) /\ MapHas(m, sid)
    THEN Resolved(MapGet(m, sid), p, m)
    ELSE IF Truthy(sid)
    THEN LET t == ArrayPopValue(p)
         IN  Resolved(t, ArrayPopRest(p),
                      IF t # None THEN MapSet(m, sid, t) ELSE m)
    ELSE Resolved(IF p # <<>> THEN ArrayLast(p)
                  ELSE IF m # <<>> THEN m[Len(m)].t ELSE None, p, m)

\* resolve as it would be if the fallback used pending.pop() for the peek.
resolveFallbackPop(p, m, sid) ==
    IF Truthy(sid) /\ MapHas(m, sid)
    THEN Resolved(MapGet(m, sid), p, m)
    ELSE IF Truthy(sid)
    THEN LET t == ArrayPopValue(p)
         IN  Resolved(t, ArrayPopRest(p),
                      IF t # None THEN MapSet(m, sid, t) ELSE m)
    ELSE Resolved(ArrayPopValue(p), ArrayPopRest(p), m)

\* resolve as it would be without the `if (transport)` guard of line 470:
\* the identifier is bound even when nothing was staged.
resolveBindNull(p, m, sid) ==
    IF Truthy(sid) /\ MapHas(m, sid)
    THEN Resolved(MapGet(m, sid), p, m)
    ELSE IF Truthy(sid)
    THEN LET t == ArrayPopValue(p)
         IN  Resolved(t, ArrayPopRest(p), MapSet(m, sid, t))
    ELSE Resolved(ArrayLast(p), p, m)

\* resolve as it would be if the promotion peeked at the newest staged
\* transport (pending[pending.length - 1]) instead of popping it.
resolvePromotePeek(p, m, sid) ==
    IF Truthy(sid) /\ MapHas(m, sid)
    THEN Resolved(MapGet(m, sid), p, m)
    ELSE IF Truthy(sid)
    THEN LET t == ArrayLast(p)
         IN  Resolved(t, p, IF t # None THEN MapSet(m, sid, t) ELSE m)
    ELSE Resolved(ArrayLast(p), p, m)

\* resolve as it would be if the promotion forgot transports.set.
resolveNoBind(p, m, sid) ==
    IF Truthy(sid) /\ MapHas(m, sid)
    THEN Resolved(MapGet(m, sid), p, m)
    ELSE IF Truthy(sid)
    THEN Resolved(ArrayPopValue(p), ArrayPopRest(p), m)
    ELSE Resolved(ArrayLast(p), p, m)

\* Lines 463-474: the channel a POST /sse with query value `sid` resolves to,
\* and the staged collection and mapping it leaves behind.
resolve(p, m, sid) ==
    IF Truthy(sid) /\ MapHas(m, sid)
    THEN Resolved(MapGet(m, sid), p, m)
    ELSE IF Truthy(sid)
    THEN LET t == ArrayPopValue(p)
         IN  Resolved(t, ArrayPopRest(p),
                      IF t # None THEN MapSet(m, sid, t) ELSE m)
    ELSE Resolved(ArrayLast(p), p, m)

\* ------------------------------------------------- res.on("close") listener
\* the first entry of the Map whose value is the transport, 0 if none
FirstEntryOf(m, c) ==
    IF \E i \in 1..Len(m) : m[i].t = c
    THEN CHOOSE i \in 1..Len(m) : m[i].t = c /\ \A j \in 1..(i-1) : m[j].t # c
    ELSE 0

\* the close listener as it would be with pending.splice(i) for
\* pending.splice(i, 1): everything staged from the transport on is dropped.
closeListenerSpliceRest(p, m, c) ==
    LET i == ArrayIndexOf(p, c)
        k == FirstEntryOf(m, c)
    IN  [pending    |-> IF i >= 1 THEN SubSeq(p, 1, i - 1) ELSE p,
         transports |-> IF k >= 1 THEN MapDelete(m, m[k].sid) ELSE m]

\* Lines 435-445: what the close listener of transport c leaves behind.
closeListener(p, m, c) ==
    LET i == ArrayIndexOf(p, c)
        k == FirstEntryOf(m, c)
    IN  [pending    |-> IF i >= 1 THEN ArraySplice(p, i) ELSE p,
         transports |-> IF k >= 1 THEN MapDelete(m, m[k].sid) ELSE m]

\* ------------------------------------------------------------ responses
\* body of the 409 answer, word by word
Body409 == <<"No", "active", "SSE", "transport.", "Open", "GET", "/sse", "first.">>
Body500Get == <<"SSE", "init", "error">>
Body500Post == <<"POST", "handler", "error">>
NoBody == <<>>

\* ---------------------------------------------------------------- state
VARIABLES
    pending,     \* const pending = []           staged transports, in push order
    transports,  \* const transports = new Map() sessionId -> transport
    pc,          \* per GET /sse request: position of its handler
    conn,        \* per GET /sse request: state of the underlying connection
    last,        \* the event processed last and how it was answered
    quoted,      \* history: channels whose identifier a processed POST quoted
    serial       \* history: session setup has been serialized so far

vars == <<pending, transports, pc, conn, last, quoted, serial>>

Event(kind, chan, sid, t, status, body) ==
    [kind |-> kind, chan |-> chan, sid |-> sid, transport |-> t,
     status |-> status, body |-> body]

\* the GET /sse requests are numbered in order of arrival
NextChan == IF \E c \in Chan : pc[c] = "idle"
            THEN CHOOSE c \in Chan : pc[c] = "idle" /\ \A d \in 1..(c-1) : pc[d] # "idle"
            ELSE 0

Registered(c) == pc[c] = "done"

Init ==
    /\ pending = <<>>
    /\ transports = <<>>
    /\ pc = [c \in Chan |-> "idle"]
    /\ conn = [c \in Chan |-> "none"]
    /\ last = Event("init", None, Null, None, "none", NoBody)
    /\ quoted = {}
    /\ serial = TRUE

\* GET /sse as it would be if the transport were staged before
\* `await mcp.connect(transport)` instead of after it.
GetSseOpenEager ==
    /\ NextChan # 0
    /\ LET c == NextChan IN
        /\ pc' = [pc EXCEPT ![c] = "connect"]
        /\ conn' = [conn EXCEPT ![c] = "open"]
        /\ pending' = Append(pending, c)
        /\ last' = Event("GET", c, Null, None, "none", NoBody)
    /\ UNCHANGED <<transports, quoted, serial>>

\* GET /sse, lines 425-430: the transport is constructed on the response and
\* the handler suspends in `await mcp.connect(transport)`; the stream emits
\* the transport's identifier while connecting.
GetSseOpen ==
    /\ NextChan # 0
    /\ LET c == NextChan IN
        /\ pc' = [pc EXCEPT ![c] = "connect"]
        /\ conn' = [conn EXCEPT ![c] = "open"]
        /\ last' = Event("GET", c, Null, None, "none", NoBody)
    /\ UNCHANGED <<pending, transports, quoted, serial>>

\* GET /sse, lines 432-447: connect resolved; the transport is staged, the
\* close listener is wired and the handler returns with the stream open.
GetSseStage(c) ==
    /\ pc[c] = "connect"
    /\ pending' = Append(pending, c)
    /\ pc' = [pc EXCEPT ![c] = "done"]
    /\ last' = Event("stage", c, Null, None, "none", NoBody)
    /\ serial' = (serial /\ \A d \in Chan :
                     (Registered(d) /\ conn[d] = "open") => d \in quoted)
    /\ quoted' = IF serial' THEN quoted ELSE {}
    /\ UNCHANGED <<transports, conn>>

\* GET /sse, lines 448-455: stream setup threw; nothing is staged.  The catch
\* block answers 500 inside a try of its own (lines 450-453): when the
\* transport had already written the stream's response head (`sent`),
\* res.writeHead throws, the error is swallowed, res.end is not reached and
\* the caller keeps the unregistered stream it was given.
GetSseFail(c, sent) ==
    /\ pc[c] = "connect"
    /\ pc' = [pc EXCEPT ![c] = "failed"]
    /\ conn' = [conn EXCEPT ![c] = IF sent THEN "open" ELSE "closed"]
    /\ last' = IF sent
               THEN Event("fail", c, Null, None, "none", NoBody)
               ELSE Event("fail", c, Null, None, "500", Body500Get)
    /\ UNCHANGED <<pending, transports, quoted, serial>>

\* The underlying connection of channel c closes.  The listener of lines
\* 435-445 runs only if it has been wired (the handler passed line 435);
\* a 'close' emitted before that is lost.
Close(c) ==
    /\ conn[c] = "open"
    /\ pc[c] \in {"connect", "done"}
    /\ conn' = [conn EXCEPT ![c] = "closed"]
    /\ LET r == closeListener(pending, transports, c) IN
        IF pc[c] = "done"
        THEN pending' = r.pending /\ transports' = r.transports
        ELSE UNCHANGED <<pending, transports>>
    /\ last' = Event("close", c, Null, None, "none", NoBody)
    /\ UNCHANGED <<pc, quoted, serial>>

\* The identifiers a client can quote: those a stream has emitted so far,
\* whether that stream is still open or not (identifiers are random, so a
\* client cannot quote one before it is minted).
QuotableSids == {sessionId(c) : c \in {d \in Chan : pc[d] # "idle"}}

\* what transport.handlePostMessage does with the request
Deliveries == {"ok", "throw"}

\* POST /sse, lines 459-490.
PostSse(q, delivery) ==
    LET sid == getSessionId(q)
        r   == resolve(pending, transports, sid)
        qc  == {c \in Chan : sessionId(c) = sid}
    IN  /\ pending' = r.pending
        /\ transports' = r.transports
        /\ last' = IF r.transport = None
                   THEN Event("POST", None, sid, None, "409", Body409)
                   ELSE IF delivery = "throw"
                   THEN Event("POST", None, sid, r.transport, "500", Body500Post)
                   ELSE Event("POST", None, sid, r.transport, "transport", NoBody)
        /\ serial' = (serial /\ (Truthy(sid) =>
                         \E c \in qc : Registered(c) /\ conn[c] = "open"))
        /\ quoted' = IF serial' THEN quoted \cup qc ELSE {}
        /\ UNCHANGED <<pc, conn>>

Next ==
    \/ GetSseOpen
    \/ \E c \in Chan : GetSseStage(c)
    \/ \E c \in Chan, sent \in BOOLEAN : GetSseFail(c, sent)
    \/ \E c \in Chan : Close(c)
    \/ \E q \in Queries(QuotableSids), d \in Deliveries : PostSse(q, d)

Spec == Init /\ [][Next]_vars

\* ====================================================================
\* The HTTP front door, lines 379-495: every request is routed by method and
\* url.  A url is its path, character by character, and its query string.
\* ====================================================================

\* channels opened in the behaviours of the front door
MaxHttpChan == 2

PathRoot == <<"/">>
PathHealth == <<"/", "h", "e", "a", "l", "t", "h">>
PathSse == <<"/", "s", "s", "e">>
PathDebug == <<"/", "d", "e", "b", "u", "g", "-", "t", "r", "a", "n", "s", "p", "o", "r", "t">>

Url(path, search) == [path |-> path, search |-> search]

\* const url = req.url || "/"
UrlOrRoot(u) == IF u.path = <<>> /\ u.search = <<>> THEN Url(PathRoot, <<>>) ELSE u

\* const method = req.method || "GET"
MethodOrGet(m) == IF m = "" THEN "GET" ELSE m

\* url === p, for a p without query string
UrlIs(u, p) == u.path = p /\ u.search = <<>>

\* url.startsWith(p), for a p without query string
StartsWith(u, p) == Len(u.path) >= Len(p) /\ SubSeq(u.path, 1, Len(p)) = p

\* the branch as it would be if HEAD were handled like GET: no HEAD branch,
\* and the stream is opened for HEAD /sse too.
RouteHeadAsGet(method, url) ==
    LET m == MethodOrGet(method)
        u == UrlOrRoot(url)
    IN  IF m = "GET" /\ (UrlIs(u, PathRoot) \/ StartsWith(u, PathHealth)) THEN "health"
        ELSE IF StartsWith(u, PathSse) /\ m = "OPTIONS" THEN "options"
        ELSE IF m = "GET" /\ UrlIs(u, PathDebug) THEN "debug"
        ELSE IF m \in {"GET", "HEAD"} /\ StartsWith(u, PathSse) THEN "getSse"
        ELSE IF m = "POST" /\ StartsWith(u, PathSse) THEN "postSse"
        ELSE "notFound"

\* the branch as it would be if the message branch tested the url only.
RouteAnyMethodPosts(method, url) ==
    LET m == MethodOrGet(method)
        u == UrlOrRoot(url)
    IN  IF m = "GET" /\ (UrlIs(u, PathRoot) \/ StartsWith(u, PathHealth)) THEN "health"
        ELSE IF StartsWith(u, PathSse) /\ m = "OPTIONS" THEN "options"
        ELSE IF StartsWith(u, PathSse) /\ m = "HEAD" THEN "head"
        ELSE IF m = "GET" /\ UrlIs(u, PathDebug) THEN "debug"
        ELSE IF m = "GET" /\ StartsWith(u, PathSse) THEN "getSse"
        ELSE IF StartsWith(u, PathSse) THEN "postSse"
        ELSE "notFound"

\* Lines 383-494: the branch of the request handler a request takes.
Route(method, url) ==
    LET m == MethodOrGet(method)
        u == UrlOrRoot(url)
    IN  IF m = "GET" /\ (UrlIs(u, PathRoot) \/ StartsWith(u, PathHealth)) THEN "health"
        ELSE IF StartsWith(u, PathSse) /\ m = "OPTIONS" THEN "options"
        ELSE IF StartsWith(u, PathSse) /\ m = "HEAD" THEN "head"
        ELSE IF m = "GET" /\ UrlIs(u, PathDebug) THEN "debug"
        ELSE IF m = "GET" /\ StartsWith(u, PathSse) THEN "getSse"
        ELSE IF m = "POST" /\ StartsWith(u, PathSse) THEN "postSse"
        ELSE "notFound"

BodyOk == <<"ok">>
BodyNotFound == <<"Not", "found">>
\* JSON.stringify({ methods }, null, 2): the transport prototype's methods
BodyMethods == <<"{", "methods", "}">>

\* the branches that answer at once and return
Answer(kind, status, body) ==
    /\ last' = Event(kind, None, Null, None, status, body)
    /\ UNCHANGED <<pending, transports, pc, conn, quoted, serial>>

\* One HTTP request, lines 379-495 up to the first await of its branch.
Request(method, url) ==
    LET route == Route(method, url) IN
    CASE route = "health"  -> Answer("health", "200", BodyOk)
      [] route = "options" -> Answer("options", "204", NoBody)
      [] route = "head"    -> Answer("head", "200", NoBody)
      [] route = "debug"   -> Answer("debug", "200", BodyMethods)
      [] route = "getSse"  -> NextChan \in 1..MaxHttpChan /\ GetSseOpen
      [] route = "postSse" -> \E d \in Deliveries : PostSse(UrlOrRoot(url).search, d)
      [] OTHER             -> Answer("notFound", "404", BodyNotFound)

Methods == {"", "GET", "POST", "OPTIONS", "HEAD", "DELETE"}

\* The urls the front door is exercised with: the routed paths, paths one
\* character longer and shorter, an unrouted path and the missing url; the
\* /sse paths with the query strings of POST /sse, the others without query
\* string and with an unrelated one.
Paths ==
    {<<>>, PathRoot, PathHealth, PathHealth \o <<"z">>, <<"/", "h", "e", "a", "l", "t">>,
     PathSse, PathSse \o <<"x">>, <<"/", "s", "s">>,
     PathDebug, PathDebug \o <<"x">>, <<"/", "x">>}

Urls(sids) ==
    {Url(p, s) : p \in {PathSse, PathSse \o <<"x">>}, s \in Queries(sids)}
        \cup {Url(p, s) : p \in Paths \ {<<>>}, s \in {<<>>, <<Param("x", EmptyStr)>>}}
        \cup {Url(<<>>, <<>>)}

NextHttp ==
    \/ \E m \in Methods, u \in Urls(QuotableSids) : Request(m, u)
    \/ \E c \in Chan : GetSseStage(c)
    \/ \E c \in Chan, sent \in BOOLEAN : GetSseFail(c, sent)
    \/ \E c \in Chan : Close(c)

SpecHttp == Init /\ [][NextHttp]_vars

\* ====================================================================
\* The tool dispatcher, lines 318-359: the handler the MCP server runs for
\* a tools/call message that POST /sse delivered to a channel.
\* ====================================================================

\* channels opened in the behaviours of the dispatcher
MaxToolChan == 1
\* the integers a caller passes as repeat range over -2..MaxRepeat
MaxRepeat == 9

\* JavaScript values of the arguments object: undefined (also what args?.x
\* gives when args itself is missing), strings, and numbers val + frac/10
Undefined == [type |-> "undefined"]
Str(s) == [type |-> "string", val |-> s]
Num(n, frac) == [type |-> "number", val |-> n, frac |-> frac]

\* typeof v === "string"
typeofString(v) == v.type = "string"
\* Number.isInteger(v)
NumberIsInteger(v) == v.type = "number" /\ v.frac = 0
MathMin(a, b) == IF a < b THEN a ELSE b
MathMax(a, b) == IF a > b THEN a ELSE b

\* the tools of the capability table, lines 283-316
RegisteredTools == {"echo", "respond"}

\* one content item { type: "text", text: ... }
TextItem == "text"
UnknownTool == <<"Unknown", "tool">>
Returned(content) == [status |-> "result", body |-> content]
Thrown(message) == [status |-> "error", body |-> message]

clampRepeatNoFloor(repeatRaw) == MathMin(5, repeatRaw)

\* line 339
clampRepeat(repeatRaw) == MathMax(1, MathMin(5, repeatRaw))

\* the respond tool, lines 329-356
respond(args) ==
    LET mode      == IF typeofString(args.mode) THEN args.mode.val ELSE "text"
        repeatRaw == IF NumberIsInteger(args.repeat) THEN args.repeat.val ELSE 1
        repeat    == clampRepeat(repeatRaw)
    IN  IF mode = "multi"
        THEN Returned([i \in 1..repeat |-> TextItem])
        ELSE Returned(<<TextItem>>)

callToolAnyNameEchoes(name, args) ==
    IF name = "respond" THEN respond(args) ELSE Returned(<<TextItem>>)

\* the handler, lines 318-359
callTool(name, args) ==
    IF name = "echo" THEN Returned(<<TextItem>>)
    ELSE IF name = "respond" THEN respond(args)
    ELSE Thrown(UnknownTool)

\* The handler runs for the message the last POST delivered to a channel; it
\* reads and writes neither pending nor transports.
CallTool(name, args) ==
    /\ last.kind = "POST"
    /\ last.status = "transport"
    /\ LET r == callTool(name, args)
       IN  last' = Event("tool", None, last.sid, last.transport, r.status, r.body)
    /\ UNCHANGED <<pending, transports, pc, conn, quoted, serial>>

\* tool names and arguments the dispatcher is exercised with
ToolNames == RegisteredTools \cup {"doesNotExist", ""}
Modes == {Undefined, Str("text"), Str("markdown"), Str("multi"), Num(1, 0)}
Repeats ==
    {Undefined, Str("3"), Num(2, 5)} \cup {Num(n, 0) : n \in -2..MaxRepeat}
ToolArgs == [mode : Modes, repeat : Repeats]

NextTool ==
    \/ NextChan \in 1..MaxToolChan /\ GetSseOpen
    \/ \E c \in Chan : GetSseStage(c)
    \/ \E c \in Chan, sent \in BOOLEAN : GetSseFail(c, sent)
    \/ \E c \in Chan : Close(c)
    \/ \E q \in Queries(QuotableSids), d \in Deliveries : PostSse(q, d)
    \/ \E name \in ToolNames, args \in ToolArgs : CallTool(name, args)

SpecTool == Init /\ [][NextTool]_vars

TypeOK ==
    /\ SeqRange(pending) \subseteq Chan
    /\ MapValues(transports) \subseteq Chan
    /\ pc \in [Chan -> {"idle", "connect", "done", "failed"}]
    /\ conn \in [Chan -> {"none", "open", "closed"}]

\* ====================================================================
\* Properties
\* ====================================================================

\* the channel whose stream emitted identifier sid (None if no stream did)
EmitterOf(sid) ==
    IF \E c \in Chan : sessionId(c) = sid
    THEN CHOOSE c \in Chan : sessionId(c) = sid
    ELSE None

IsPost(e) == e.kind = "POST"
QuotesSid(e) == IsPost(e) /\ Truthy(e.sid)
Live(c) == Registered(c) /\ conn[c] = "open"

\* C1: a POST quoting identifier S is delivered only to the channel whose
\* stream emitted S, in every interleaving of opens, POSTs and closes.
C1_DeliveredOnlyToEmitter ==
    (QuotesSid(last) /\ last.transport # None)
        => last.transport = EmitterOf(last.sid)

\* C2: as long as session setup has been serialized (every stream staged
\* after all earlier live streams had their identifier quoted, every POST
\* quoting the identifier of a staged stream that is still open), a POST
\* quoting S is delivered to the channel that emitted S.
C2_SerializedDelivery ==
    (serial /\ QuotesSid(last))
        => (last.status # "409" /\ last.transport = EmitterOf(last.sid))

\* C2 witness: under serialized setup the second session's POST is delivered
\* to the second stream after the first session was bound.
C2_Witness ==
    /\ serial
    /\ QuotesSid(last)
    /\ last.transport = 2
    /\ MapHas(transports, sessionId(1))
    /\ MapGet(transports, sessionId(2)) = 2

\* C3: a POST whose sessionId is not a key of the mapping, with something
\* staged, removes exactly the last staged channel, binds it to that
\* sessionId and delivers to it; the other staged channels keep their order
\* and the existing bindings are unchanged.
C3_PromoteNewest ==
    [][(/\ QuotesSid(last')
        /\ ~MapHas(transports, last'.sid)
        /\ pending # <<>>)
       => (/\ last'.transport = pending[Len(pending)]
           /\ last'.status # "409"
           /\ pending' = SubSeq(pending, 1, Len(pending) - 1)
           /\ transports' = Append(transports,
                                   Entry(last'.sid, pending[Len(pending)])))]_vars

\* C3 witness: the newest of three staged channels was promoted, the two
\* older ones are still staged in their order.
C3_Witness ==
    /\ QuotesSid(last)
    /\ Len(pending) = 2 /\ pending[1] < pending[2]
    /\ Len(transports) = 1
    /\ transports[1] = Entry(last.sid, last.transport)
    /\ last.transport \notin SeqRange(pending)

\* C4: once sessionId A is bound to channel c, the binding stays until c's
\* close listener runs, every POST with sessionId A resolves to c, and such
\* a reuse changes neither the staged collection nor the mapping.
C4_ReuseStable ==
    [][\A i \in 1..Len(transports) :
        LET A == transports[i].sid
            c == transports[i].t
        IN  /\ (IsPost(last') /\ last'.sid = A)
                => (/\ last'.transport = c
                    /\ last'.status # "409"
                    /\ pending' = pending
                    /\ transports' = transports)
            /\ ~(last'.kind = "close" /\ last'.chan = c)
                => (MapHas(transports', A) /\ MapGet(transports', A) = c)]_vars

\* C4 witness: a POST reuses the oldest binding after another session was
\* promoted in between, and a third stream is staged.
C4_Witness ==
    /\ IsPost(last)
    /\ Len(transports) = 2
    /\ last.sid = transports[1].sid
    /\ last.transport = transports[1].t
    /\ Live(last.transport)
    /\ pending # <<>>

\* C5: a POST quoting the identifier emitted by a staged stream whose
\* connection is still open is never answered 409, whatever was processed
\* before it.
C5_OpenSessionResolvable ==
    (QuotesSid(last) /\ EmitterOf(last.sid) # None /\ Live(EmitterOf(last.sid)))
        => last.status # "409"

\* C6: a channel whose connection has closed is in neither the staged
\* collection nor the mapping, whenever in its life the close happened, and
\* no POST resolves to it.
C6_ClosedIsUnregistered ==
    \A c \in Chan :
        conn[c] = "closed"
            => (/\ c \notin SeqRange(pending)
                /\ c \notin MapValues(transports)
                /\ ~(IsPost(last) /\ last.transport = c))

Staged(c) == c \in SeqRange(pending)
Bound(c) == c \in MapValues(transports)
Closed(c) == conn[c] = "closed"
Occurrences(a, x) == Cardinality({i \in 1..Len(a) : a[i] = x})

\* C7: every registered channel is in exactly one of the states Staged
\* (once in the staged collection), Bound (a value of the mapping), Closed.
C7_ExactlyOneState ==
    \A c \in Chan :
        Registered(c)
            => (/\ Staged(c) \/ Bound(c) \/ Closed(c)
                /\ ~(Staged(c) /\ Bound(c))
                /\ ~(Staged(c) /\ Closed(c))
                /\ ~(Bound(c) /\ Closed(c))
                /\ Occurrences(pending, c) <= 1)

\* the POST carries no usable sessionId (absent or empty)
NoSid(e) == IsPost(e) /\ ~Truthy(e.sid)

\* C8 as claimed: a POST without sessionId, with nothing staged and something
\* bound, is delivered to the most recently bound channel, not answered 409.
C8_FallbackToBound ==
    [][(NoSid(last') /\ pending = <<>> /\ transports # <<>>)
       => (/\ last'.status # "409"
           /\ last'.transport = transports[Len(transports)].t)]_vars

\* C8 amended: a POST without sessionId, with nothing staged, is answered 409
\* also when channels are bound (the fallback looks at the staged collection
\* only), and it leaves the staged collection and the mapping unchanged.
C8_FallbackOnlyStaged ==
    [][(NoSid(last') /\ pending = <<>> /\ transports # <<>>)
       => (/\ last'.status = "409"
           /\ last'.transport = None
           /\ pending' = pending
           /\ transports' = transports)]_vars

\* C8 witness: 409 to a POST without sessionId while a live channel is bound
\* and nothing is staged.
C8_Witness ==
    /\ NoSid(last)
    /\ last.status = "409"
    /\ pending = <<>>
    /\ \E i \in 1..Len(transports) : Live(transports[i].t)

\* C9: a POST without sessionId, with something staged, resolves to the most
\* recently staged channel and leaves the staged collection and the mapping
\* unchanged.
C9_FallbackPeeks ==
    [][(NoSid(last') /\ pending # <<>>)
       => (/\ last'.transport = pending[Len(pending)]
           /\ last'.status # "409"
           /\ pending' = pending
           /\ transports' = transports)]_vars

\* C9 witness: the POST without sessionId resolved to the newest of two
\* staged channels, which is still staged.
C9_Witness ==
    /\ NoSid(last)
    /\ Len(pending) = 2
    /\ last.transport = pending[2]
    /\ last.status = "transport"

RECURSIVE Contains(_, _)
\* the word sequence `body` contains the word sequence `words`
Contains(body, words) ==
    IF Len(body) < Len(words) THEN FALSE
    ELSE IF SubSeq(body, 1, Len(words)) = words THEN TRUE
    ELSE Contains(Tail(body), words)

\* resolve has nothing to return for this sessionId: the fallback or the
\* promotion finds nothing staged, and the sessionId is not bound
NothingToResolve(p, m, sid) ==
    IF Truthy(sid) THEN ~MapHas(m, sid) /\ p = <<>> ELSE p = <<>>

\* C10: a POST is answered 409 "... Open GET /sse first." exactly when resolve
\* finds no channel, always so before any GET /sse has been staged, and then
\* the staged collection and the mapping are as before and no stream closed.
C10_Answer409 ==
    [][IsPost(last')
       => (/\ (last'.status = "409")
                 <=> NothingToResolve(pending, transports, last'.sid)
           /\ (\A c \in Chan : ~Registered(c)) => last'.status = "409"
           /\ (last'.status = "409")
                 => (/\ Contains(last'.body, <<"Open", "GET", "/sse", "first.">>)
                     /\ last'.transport = None
                     /\ pending' = pending
                     /\ transports' = transports
                     /\ conn' = conn))]_vars

\* C10 witness: 409 to a POST that carries a sessionId while a live channel
\* is bound under another one.
C10_Witness ==
    /\ QuotesSid(last)
    /\ last.status = "409"
    /\ \E i \in 1..Len(transports) : Live(transports[i].t)


\* the staged collection / the mapping without channel c
PendingWithout(p, c) == SelectSeq(p, LAMBDA x : x # c)
TransportsWithout(m, c) == SelectSeq(m, LAMBDA e : e.t # c)
Untouched(p, m, c) ==
    closeListener(p, m, c) = [pending |-> p, transports |-> m]

\* C11: the close listener of a channel removes it from whichever collection
\* holds it and leaves every other staged channel and binding as it was;
\* running it again, or for a channel in neither collection, changes nothing.
C11_UnregisterIdempotent ==
    [][(last'.kind = "close" /\ Registered(last'.chan))
       => (/\ pending' = PendingWithout(pending, last'.chan)
           /\ transports' = TransportsWithout(transports, last'.chan)
           /\ Untouched(pending', transports', last'.chan)
           /\ \A d \in Chan :
                (d \notin SeqRange(pending') /\ d \notin MapValues(transports'))
                    => Untouched(pending', transports', d))]_vars

\* C11 witness: the listener ran for a registered channel while another
\* channel is staged and another one is bound.
C11_Witness ==
    /\ last.kind = "close"
    /\ Registered(last.chan)
    /\ pending # <<>>
    /\ transports # <<>>

\* C12: a channel that has left the staged collection (bound by a promotion,
\* or bound and closed since) is never an element of it again, and a bound
\* channel is not staged.
C12_PromotionMonotonic ==
    [][\A c \in Chan :
        (Bound(c) \/ (Registered(c) /\ ~Staged(c))) => ~Staged(c)']_vars

\* C12 witness: a channel was promoted and closed, and later streams were
\* staged and promoted after it.
C12_Witness ==
    /\ Registered(1) /\ Closed(1) /\ ~Staged(1) /\ ~Bound(1)
    /\ 1 \in quoted
    /\ Bound(2)
    /\ Staged(3)


\* C13 as claimed: when the delivery throws, the POST is answered 500 and the
\* staged collection, the mapping and every connection are as before the
\* request.
C13_DeliveryFailureLeavesState ==
    [][(IsPost(last') /\ last'.status = "500")
       => (/\ pending' = pending
           /\ transports' = transports
           /\ conn' = conn)]_vars

\* C14 as claimed: when stream setup fails the caller is answered 500, and
\* the staged collection and the mapping are as before.
C14_SetupFailureAnswers500 ==
    [][(last'.kind = "fail")
       => (/\ last'.status = "500"
           /\ pending' = pending
           /\ transports' = transports)]_vars

\* C14 amended: when stream setup fails the caller is answered 500 unless the
\* stream's response head had already been written (then nothing more is
\* sent); either way the failed channel is in neither collection, then and
\* ever after, and the staged collection and the mapping are as before.
C14_SetupFailureStagesNothing ==
    [][/\ (last'.kind = "fail")
            => (/\ (last'.status = "500" /\ last'.body = Body500Get
                        /\ conn'[last'.chan] = "closed")
                   \/ (last'.status = "none" /\ conn'[last'.chan] = "open")
                /\ pending' = pending
                /\ transports' = transports)
       /\ \A c \in Chan :
            pc'[c] = "failed"
                => (c \notin SeqRange(pending') /\ c \notin MapValues(transports'))]_vars

\* C14 witness: a stream setup failed and was answered 500 while another
\* channel is staged and another one is bound.
C14_Witness ==
    /\ last.kind = "fail"
    /\ last.status = "500"
    /\ pending # <<>>
    /\ transports # <<>>


\* C19: promotion is atomic: after every step each registered channel with
\* an open connection is staged or bound (none is seen popped but not yet
\* bound), and of two POSTs with the same sessionId processed back to back
\* the second reuses what the first resolved to and promotes nothing.
C19_PromotionAtomic ==
    [][/\ \A c \in Chan : Live(c)' => (Staged(c)' \/ Bound(c)')
       /\ (/\ QuotesSid(last) /\ QuotesSid(last')
           /\ last'.sid = last.sid
           /\ last.transport # None)
            => (/\ last'.transport = last.transport
                /\ pending' = pending
                /\ transports' = transports)]_vars

\* C19 witness: a POST was delivered to the live channel bound under its
\* sessionId while another channel is still staged.
C19_Witness ==
    /\ QuotesSid(last)
    /\ last.status = "transport"
    /\ Live(last.transport)
    /\ MapGet(transports, last.sid) = last.transport
    /\ pending # <<>>

\* C20: the mapping is one-to-one (no sessionId twice, no channel under two
\* sessionIds), so deleting the first entry that references a closing
\* channel leaves no entry referencing it.
C20_MappingOneToOne ==
    /\ \A i, j \in 1..Len(transports) :
            i # j => (/\ transports[i].sid # transports[j].sid
                      /\ transports[i].t # transports[j].t)
    /\ \A c \in Chan :
            c \notin MapValues(closeListener(pending, transports, c).transports)

\* C20 witness: two channels are bound, one of them under an identifier
\* another stream emitted.
C20_Witness ==
    /\ Len(transports) >= 2
    /\ \E i \in 1..Len(transports) :
            transports[i].sid # sessionId(transports[i].t)


\* the requests the claims name, by method and url
HasPrefix(u, p) == Len(u.path) >= Len(p) /\ SubSeq(u.path, 1, Len(p)) = p
IsGet(m) == m = "GET" \/ m = ""
HealthRequest(m, u) ==
    IsGet(m) /\ (u = Url(PathRoot, <<>>) \/ u = Url(<<>>, <<>>) \/ HasPrefix(u, PathHealth))
OptionsRequest(m, u) == m = "OPTIONS" /\ HasPrefix(u, PathSse)
HeadRequest(m, u) == m = "HEAD" /\ HasPrefix(u, PathSse)
GetSseRequest(m, u) == IsGet(m) /\ HasPrefix(u, PathSse)
PostSseRequest(m, u) == m = "POST" /\ HasPrefix(u, PathSse)
DebugRequest(m, u) == IsGet(m) /\ u = Url(PathDebug, <<>>)
BrokerUnchanged == UNCHANGED <<pending, transports, pc, conn>>

\* every request of the front door's alphabet, whatever identifier it quotes
AllRequests == Methods \X Urls({sessionId(c) : c \in Chan})
HealthRequests == {r \in AllRequests : HealthRequest(r[1], r[2])}
OptionsRequests == {r \in AllRequests : OptionsRequest(r[1], r[2])}
HeadRequests == {r \in AllRequests : HeadRequest(r[1], r[2])}
OtherThanSseRequests ==
    {r \in AllRequests : ~(GetSseRequest(r[1], r[2]) \/ PostSseRequest(r[1], r[2]))}

\* the kind of event a request of each route records
RouteKind(route) ==
    CASE route = "getSse"  -> "GET"
      [] route = "postSse" -> "POST"
      [] OTHER             -> route
EventKinds ==
    {"init", "health", "options", "head", "debug", "GET", "POST", "notFound",
     "stage", "fail", "close"}
\* the requests of a set whose handling records an event of kind k: a step
\* that records another kind of event handles none of the others (the table
\* for each set of requests is tabulated once, as an explicit function)
OfKind(requests, k) == {r \in requests : RouteKind(Route(r[1], r[2])) = k}
Tabulated(f) == f @@ <<>>
\* this step handles none of the requests of a set
NoneHandled(requests) ==
    requests = {} \/ \A r \in requests : ~Request(r[1], r[2])
HealthOfKind == Tabulated([k \in EventKinds |-> OfKind(HealthRequests, k)])
OptionsOfKind == Tabulated([k \in EventKinds |-> OfKind(OptionsRequests, k)])
HeadOfKind == Tabulated([k \in EventKinds |-> OfKind(HeadRequests, k)])
OtherThanSseOfKind == Tabulated([k \in EventKinds |-> OfKind(OtherThanSseRequests, k)])

\* C15: health, OPTIONS /sse*, HEAD /sse* and not-found requests are answered
\* at once with 200, 204, 200 and 404 and leave the staged collection and the
\* mapping unchanged; the staged collection and the mapping change only in
\* steps of GET /sse*, POST /sse* and close listeners.
C15_ImmediateRoutesFrame ==
    [][/\ (last'.status = "200" /\ last'.body = BodyOk /\ BrokerUnchanged)
            \/ NoneHandled(HealthOfKind[last'.kind])
       /\ (last'.status = "204" /\ BrokerUnchanged)
            \/ NoneHandled(OptionsOfKind[last'.kind])
       /\ (last'.status = "200" /\ last'.body = NoBody /\ BrokerUnchanged)
            \/ NoneHandled(HeadOfKind[last'.kind])
       /\ last'.kind = "notFound" => (last'.status = "404" /\ BrokerUnchanged)
       /\ BrokerUnchanged
            \/ NoneHandled(OtherThanSseOfKind[last'.kind])
       /\ (pending' # pending \/ transports' # transports)
            => last'.kind \in {"stage", "POST", "close"}]_vars

\* C15 witness: a request was answered 204 at once while one channel is
\* staged and another one is bound.
C15_Witness ==
    /\ last.kind = "options"
    /\ last.status = "204"
    /\ pending # <<>>
    /\ transports # <<>>

\* the requests C16 lists: GET / , GET /health*, and OPTIONS, HEAD, GET and
\* POST /sse*
ListedRequest(m, u) ==
    \/ IsGet(m) /\ (u.path \in {<<>>, PathRoot} \/ HasPrefix(u, PathHealth))
    \/ (m \in {"OPTIONS", "HEAD", "POST"} \/ IsGet(m)) /\ HasPrefix(u, PathSse)

UnlistedRequests == {r \in AllRequests : ~ListedRequest(r[1], r[2])}
DebugRequests == {r \in AllRequests : DebugRequest(r[1], r[2])}

UnlistedOfKind == Tabulated([k \in EventKinds |-> OfKind(UnlistedRequests, k)])
UnlistedNotDebugOfKind ==
    Tabulated([k \in EventKinds |-> OfKind(UnlistedRequests \ DebugRequests, k)])
DebugOfKind == Tabulated([k \in EventKinds |-> OfKind(DebugRequests, k)])

\* C16 as claimed: every request that is not listed is answered 404
\* "Not found".
C16_OthersNotFound ==
    [][(last'.status = "404" /\ last'.body = BodyNotFound)
        \/ NoneHandled(UnlistedOfKind[last'.kind])]_vars

\* C16 amended: every request that is neither listed nor GET /debug-transport
\* is answered 404 "Not found"; GET /debug-transport (that exact url) is one
\* more route and is answered 200.
C16_OthersNotFoundButDebug ==
    [][/\ (last'.status = "404" /\ last'.body = BodyNotFound /\ BrokerUnchanged)
            \/ NoneHandled(UnlistedNotDebugOfKind[last'.kind])
       /\ (last'.status = "200" /\ last'.kind = "debug" /\ BrokerUnchanged)
            \/ NoneHandled(DebugOfKind[last'.kind])]_vars

\* C16 witness: an unlisted request was answered 404 while channels are
\* staged and bound.
C16_Witness ==
    /\ last.kind = "notFound"
    /\ last.status = "404"
    /\ pending # <<>>
    /\ transports # <<>>

\* the number of content items C17 states for the arguments of a respond call
ClaimedItems(args) ==
    IF args.mode = Str("multi") /\ args.repeat.type = "number" /\ args.repeat.frac = 0
    THEN IF args.repeat.val < 1 THEN 1
         ELSE IF args.repeat.val > 5 THEN 5
         ELSE args.repeat.val
    ELSE 1

\* C17: a respond call in mode "multi" returns as many content items as the
\* requested repeat count clamped to 1..5 when that count is an integer, and
\* one item when it is absent or not an integer; in every other mode it
\* returns one item.
C17_RepeatClamped ==
    [][last'.kind = "tool"
        => \A args \in ToolArgs :
             CallTool("respond", args)
                => /\ last'.status = "result"
                   /\ Len(last'.body) = ClaimedItems(args)
                   /\ \A i \in 1..Len(last'.body) : last'.body[i] = TextItem]_vars

\* C17 witness: a respond call has returned five content items
C17_Witness ==
    /\ last.kind = "tool"
    /\ last.status = "result"
    /\ Len(last.body) = 5

\* C18: a call with a tool name outside the capability table yields the
\* unknown-tool error for that call only: the staged collection, the mapping
\* and the channels' streams are unchanged; the next POST quoting the same
\* identifier, when delivered, goes to the same channel; and every call with a
\* registered tool name returns a result.
C18_UnknownToolIsolated ==
    [][/\ last'.kind = "tool"
            => /\ \/ /\ last'.status = "error"
                     /\ last'.body = UnknownTool
                     /\ last'.sid = last.sid
                     /\ last'.transport = last.transport
                     /\ BrokerUnchanged
                  \/ \A name \in ToolNames \ RegisteredTools, args \in ToolArgs :
                        ~CallTool(name, args)
               /\ \/ last'.status = "result"
                  \/ \A name \in RegisteredTools, args \in ToolArgs :
                        ~CallTool(name, args)
       /\ (last.kind = "tool" /\ last.status = "error" /\ Truthy(last.sid))
            => (PostSse(<<Param("sessionId", last.sid)>>, "ok")
                    => (last'.status = "transport"
                        /\ last'.transport = last.transport))]_vars

\* C18 witness: an unknown-tool error was returned for a call on a session
\* whose channel is open and bound
C18_Witness ==
    /\ last.kind = "tool"
    /\ last.status = "error"
    /\ Truthy(last.sid)
    /\ MapHas(transports, last.sid)
    /\ MapGet(transports, last.sid) = last.transport
    /\ conn[last.transport] = "open"

====
